---- MODULE Spec2Model ----
(***************************************************************************)
(* TEA5767 FM tuner driver (src/radio/radio.py): the register codec, the   *)
(* soft state (_current_freq, _forced_mono, _muted), the two locks         *)
(* (_state_lock, _i2c_lock) and the tuner operations, each cut into the    *)
(* steps at which another caller thread can interleave.                    *)
(*                                                                         *)
(* Frequencies are integers in kHz (96.6 MHz = 96600): every float the     *)
(* code handles is a multiple of 0.001 MHz, and the integer formulas below *)
(* agree with the float ones on the whole band.                            *)
(***************************************************************************)
EXTENDS Integers, Sequences, FiniteSets, TLC

\* ------------------------------------------------------------ bounds
\* calls made in all when callers run concurrently
MaxConcCalls == 2
\* calls the single caller makes in the sequential specification
MaxSeqCalls == 4

\* ------------------------------------------------------------ constants
FREQ_MIN == 87500
FREQ_MAX == 108000
STEP == 100
DE_EMPHASIS == 50
\* the fallback of `(_current_freq or 99.8)` in step
STEP_DEFAULT == 99800
\* _current_freq = None
None == -999999

Threads == {1, 2}
NoThread == 0

\* frequencies (kHz) callers pass to tune_to: below the band, inside it and off
\* the 0.1 MHz grid, above it (no exact .x5 tie: Python rounds those by the
\* binary value of the float)
TuneInputs == {10000, 96640, 200000}
Directions == {"up", "down"}

\* what a bus read returns besides the PLL bits: IF-ready, stereo-detected and
\* the signal level are the chip's, not the driver's
ReadEnv == { [rf |-> FALSE, st |-> FALSE, lev |-> 0],
             [rf |-> TRUE,  st |-> TRUE,  lev |-> 15] }

\* every in-band frequency on the 0.1 MHz grid
Band == { k * STEP : k \in (FREQ_MIN \div STEP)..(FREQ_MAX \div STEP) }

\* ------------------------------------------------------------ byte helpers
Bit7(b) == (b \div 128) % 2 = 1
\* b | 0x80
Or80(b) == IF Bit7(b) THEN b ELSE b + 128
\* b & ~0x80
Clr80(b) == IF Bit7(b) THEN b - 128 ELSE b

Min(a, b) == IF a < b THEN a ELSE b
Max(a, b) == IF a > b THEN a ELSE b

\* ------------------------------------------------------------ codec
\* mutant: the PLL word without the 225 kHz intermediate frequency
freq_to_pll_no_if(f) == (4 * (f * 1000)) \div 32768

\* int(4 * (freq_mhz * 1e6 + 225000) / 32768), f in kHz
freq_to_pll(f) == (4 * (f * 1000 + 225000)) \div 32768

\* round(f, 1): to the nearest 0.1 MHz, an exact tie to the even multiple
round1(f) ==
    LET q == f \div STEP
        r == f % STEP
    IN  IF 2 * r < STEP THEN q * STEP
        ELSE IF 2 * r > STEP THEN (q + 1) * STEP
        ELSE IF q % 2 = 0 THEN q * STEP ELSE (q + 1) * STEP

\* mutant: the upper band edge is not enforced
clamp_freq_no_upper(f) == Max(FREQ_MIN, round1(f))

\* mutant: the input is not rounded to 0.1 MHz
clamp_freq_no_round(f) == Max(FREQ_MIN, Min(FREQ_MAX, f))

clamp_freq(f) == Max(FREQ_MIN, Min(FREQ_MAX, round1(f)))

\* the 5 bytes set_frequency hands to raw_write5
set_frequency(f, mute, stereo, de_emphasis_us) ==
    LET pll == freq_to_pll(f)
        b0  == (pll \div 256) % 64
        b1  == pll % 256
        b2  == IF stereo THEN 176 ELSE Clr80(176)
        b3  == IF de_emphasis_us = 50 THEN 16 ELSE 0
    IN  << IF mute THEN Or80(b0) ELSE b0, b1, b2, b3, 0 >>

\* the modify callbacks of mute, unmute, set_mono, set_stereo
mute_mod(b) == << Or80(b[1]), b[2], b[3], b[4], b[5] >>
unmute_mod(b) == << Clr80(b[1]), b[2], b[3], b[4], b[5] >>
set_mono_mod(b) == << b[1], b[2], Clr80(b[3]), b[4], b[5] >>
set_stereo_mod(b) == << b[1], b[2], Or80(b[3]), b[4], b[5] >>

\* which callback an operation passes to _apply_current_pll
modify(o, b) ==
    CASE o.name = "mute" -> mute_mod(b)
      [] o.name = "unmute" -> unmute_mod(b)
      [] o.name = "set_forced_mono" /\ o.flag -> set_mono_mod(b)
      [] OTHER -> set_stereo_mod(b)

\* mutant: the low PLL byte of the frame read is not carried over
apply_current_pll_drops_low(s, o) ==
    modify(o, << s[1] % 64, 0, 176, IF DE_EMPHASIS = 50 THEN 16 ELSE 0, 0 >>)

\* the 5 bytes _apply_current_pll writes, given the 5 bytes s it read
apply_current_pll(s, o) ==
    modify(o, << s[1] % 64, s[2], 176, IF DE_EMPHASIS = 50 THEN 16 ELSE 0, 0 >>)

\* the PLL word of a frame (read or written)
pll_of(b) == (b[1] % 64) * 256 + b[2]

\* read_status' decoding of the 5 bytes s, merged with the soft mute flag
decode_status(s, m) ==
    LET pll == pll_of(s)
        freq_hz == ((pll * 32768) \div 4) - 225000
    IN  [ if_ready  |-> Bit7(s[1]),
          stereo    |-> Bit7(s[3]),
          signal    |-> (s[4] \div 16) % 16,
          frequency |-> (freq_hz + 500) \div 1000,
          muted     |-> m,
          raw       |-> s ]

\* the chip: what a read returns when its write registers hold frame w
readback(w, env) ==
    << (IF env.rf THEN 128 ELSE 0) + (w[1] % 64),
       w[2],
       IF env.st THEN 128 ELSE 0,
       env.lev * 16,
       0 >>

\* register contents before the driver's first write
PowerOnFrames == { <<0, 0, 0, 0, 0>> }

\* ------------------------------------------------------------ state
VARIABLES
    current_freq,   \* _current_freq, None or kHz
    forced_mono,    \* _forced_mono
    muted,          \* _muted
    state_lock,     \* holder of _state_lock, or NoThread
    i2c_lock,       \* holder of _i2c_lock, or NoThread
    chip,           \* the chip's write registers: the last frame written
    writes,         \* bus write transactions completed so far
    pc,             \* where each caller thread is
    op,             \* the call each thread is making or made last
    loc,            \* its locals: f / newf, s, the frame to write
    ret,            \* what its last call returned or raised
    pre,            \* soft state and chip registers when its call began
    callers,        \* the threads that make calls
    budget,         \* calls that may still be made
    hist,           \* the calls that have finished, in order, each with the
                    \* frequency it returned (tune_to, step) or reported (read_status)
    presets,        \* _PRESETS: a set of <<frequency, name>>, one per frequency
    presets_lock,   \* holder of _PRESETS_LOCK, or NoThread
    pst,            \* per thread: the presets call it is in, its locals, its result
    installed,      \* the tables that reload_presets has installed completely
    pbudget         \* presets calls that may still be made

\* the presets table and its callers
pvars == << presets, presets_lock, pst, installed, pbudget >>

vars == << current_freq, forced_mono, muted, state_lock, i2c_lock, chip, writes,
           pc, op, loc, ret, pre, callers, budget, hist, pvars >>

NoStatus == [ if_ready |-> FALSE, stereo |-> FALSE, signal |-> 0,
              frequency |-> None, muted |-> FALSE, raw |-> <<>> ]
NoOp == [ name |-> "none", f |-> None, dir |-> "-", flag |-> FALSE ]
NoLoc == [ f |-> None, s |-> <<>>, frame |-> <<>> ]
NoRet == [ ok |-> FALSE, freq |-> None, st |-> NoStatus ]
Ok(f, st) == [ ok |-> TRUE, freq |-> f, st |-> st ]

Snapshot == [ cur |-> current_freq, mono |-> forced_mono, muted |-> muted, chip |-> chip ]
NoPre == [ cur |-> None, mono |-> FALSE, muted |-> FALSE, chip |-> <<>> ]

\* ------------------------------------------------------------ presets
\* _normalize_freq: round(float(x), 1), None for what float() rejects
normalize_freq(x) == IF x = None THEN None ELSE round1(x)

\* mapping[freq] = name
Put(m, k, n) == { e \in m : e[1] # k } \cup { <<k, n>> }

\* reload_presets: the loop over the stations of the file
RECURSIVE load_items(_, _)
load_items(items, m) ==
    IF items = << >> THEN m
    ELSE LET freq == normalize_freq(Head(items).freq)
         IN  load_items(Tail(items),
                        IF freq = None THEN m ELSE Put(m, freq, Head(items).name))

\* reload_presets: the fallback when there is no stations file
FallbackPresets == { <<96600, "Preset 1">>, <<99800, "Preset 2">> }

\* reload_presets: the local mapping, from the file found
load_mapping(file) ==
    IF file.exists THEN load_items(file.items, {}) ELSE FallbackPresets

\* _PRESETS.update(mapping)
RECURSIVE update(_, _)
update(table, m) ==
    IF m = {} THEN table
    ELSE LET e == CHOOSE x \in m : TRUE
         IN  update(Put(table, e[1], e[2]), m \ {e})

\* sorted(_PRESETS.items())
RECURSIVE sorted_items(_)
sorted_items(table) ==
    IF table = {} THEN << >>
    ELSE LET lo == CHOOSE e \in table : \A x \in table : e[1] <= x[1]
         IN  << lo >> \o sorted_items(table \ {lo})

\* station_name_for: the name of the nearest preset within 0.05 MHz
nearest_name(table, freq) ==
    IF table = {} THEN "Unknown"
    ELSE LET d(e) == IF e[1] > freq THEN e[1] - freq ELSE freq - e[1]
             nearest == CHOOSE e \in table : \A x \in table : d(e) <= d(x)
         IN  IF d(nearest) <= 50 THEN nearest[2] ELSE "Unknown"

\* what stations.yaml can hold when reload_presets looks: missing, no stations,
\* one station given as 96.64, three entries with one that has no usable
\* frequency, and two entries for the same frequency after rounding
YamlFiles ==
    { [ exists |-> FALSE, items |-> << >> ],
      [ exists |-> TRUE,  items |-> << >> ],
      [ exists |-> TRUE,  items |-> << [name |-> "A", freq |-> 96640] >> ],
      [ exists |-> TRUE,  items |-> << [name |-> "A", freq |-> 96600],
                                       [name |-> "B", freq |-> 99800],
                                       [name |-> "C", freq |-> None] >> ],
      [ exists |-> TRUE,  items |-> << [name |-> "D", freq |-> 88000],
                                       [name |-> "E", freq |-> 96600],
                                       [name |-> "F", freq |-> 96640] >> ] }

\* frequencies looked up: a preset, what read_status decodes for it, no preset
LookupInputs == {96600, 96596, 90000}

\* met: where the other threads were when the call began
NoPst == [ pc |-> "idle", name |-> "none", freq |-> None, mapping |-> {},
           seen |-> {}, result |-> << >>, met |-> {} ]

\* after `reload_presets()` at import time, no stations file, no presets calls to come
PresetsAtImport ==
    /\ presets = load_mapping([ exists |-> FALSE, items |-> << >> ])
    /\ presets_lock = NoThread
    /\ pst = [t \in Threads |-> NoPst]
    /\ installed = { presets }
    /\ pbudget = 0

InitCommon ==
    /\ current_freq = None
    /\ forced_mono = FALSE
    /\ muted = FALSE
    /\ state_lock = NoThread
    /\ i2c_lock = NoThread
    /\ chip \in PowerOnFrames
    /\ writes = 0
    /\ pc = [t \in Threads |-> "idle"]
    /\ op = [t \in Threads |-> NoOp]
    /\ loc = [t \in Threads |-> NoLoc]
    /\ ret = [t \in Threads |-> NoRet]
    /\ pre = [t \in Threads |-> NoPre]
    /\ hist = << >>

\* concurrent callers
Init == InitCommon /\ PresetsAtImport /\ callers = Threads /\ budget = MaxConcCalls

\* one caller, one call after the other
InitSeq == InitCommon /\ PresetsAtImport /\ callers = {1} /\ budget = MaxSeqCalls

\* ------------------------------------------------------------ steps shared by the operations
\* a call begins
Begin(t, o, p, l) ==
    /\ pc[t] = "idle"
    /\ t \in callers
    /\ budget > 0
    /\ budget' = budget - 1
    /\ UNCHANGED callers
    /\ op' = [op EXCEPT ![t] = o]
    /\ pre' = [pre EXCEPT ![t] = Snapshot]
    /\ ret' = [ret EXCEPT ![t] = NoRet]
    /\ loc' = [loc EXCEPT ![t] = l]
    /\ pc' = [pc EXCEPT ![t] = p]

\* a call returns r (or raises, r.ok = FALSE)
Finish(t, r) ==
    /\ pc' = [pc EXCEPT ![t] = "idle"]
    /\ ret' = [ret EXCEPT ![t] = r]
    /\ loc' = [loc EXCEPT ![t] = NoLoc]
    /\ pre' = [pre EXCEPT ![t] = NoPre]
    /\ hist' = Append(hist, [ name |-> op[t].name, ok |-> r.ok,
                               val |-> IF op[t].name = "read_status"
                                       THEN r.st.frequency
                                       ELSE IF op[t].name = "set_frequency"
                                       THEN op[t].f ELSE r.freq ])

\* mutant: stepping past a band edge wraps to the other edge
step_newf_wraps(cur, dir) ==
    LET c == IF cur = None \/ cur = 0 THEN STEP_DEFAULT ELSE cur
        n == round1(c + (IF dir = "up" THEN STEP ELSE -STEP))
    IN  IF n > FREQ_MAX THEN FREQ_MIN ELSE IF n < FREQ_MIN THEN FREQ_MAX ELSE n

\* step's new frequency from the stored one
step_newf(cur, dir) ==
    clamp_freq((IF cur = None \/ cur = 0 THEN STEP_DEFAULT ELSE cur)
               + (IF dir = "up" THEN STEP ELSE -STEP))

\* the frame tune_to and step write for frequency f
tune_frame(f) == set_frequency(f, FALSE, ~forced_mono, DE_EMPHASIS)

\* ------------------------------------------------------------ operations: entry
tune_to(t, f) ==
    /\ Begin(t, [NoOp EXCEPT !.name = "tune_to", !.f = f],
             "lock", [NoLoc EXCEPT !.f = clamp_freq(f)])
    /\ UNCHANGED << pvars, writes, current_freq, forced_mono, muted, state_lock, i2c_lock, chip, hist >>

step(t, d) ==
    /\ Begin(t, [NoOp EXCEPT !.name = "step", !.dir = d], "lock", NoLoc)
    /\ UNCHANGED << pvars, writes, current_freq, forced_mono, muted, state_lock, i2c_lock, chip, hist >>

\* mutant: mute sets _muted before the bus transaction
mute_sets_flag_first(t) ==
    /\ Begin(t, [NoOp EXCEPT !.name = "mute"], "r_acq", NoLoc)
    /\ muted' = TRUE
    /\ UNCHANGED << pvars, writes, current_freq, forced_mono, state_lock, i2c_lock, chip, hist >>

mute(t) ==
    /\ Begin(t, [NoOp EXCEPT !.name = "mute"], "r_acq", NoLoc)
    /\ UNCHANGED << pvars, writes, current_freq, forced_mono, muted, state_lock, i2c_lock, chip, hist >>

unmute(t) ==
    /\ Begin(t, [NoOp EXCEPT !.name = "unmute"], "r_acq", NoLoc)
    /\ UNCHANGED << pvars, writes, current_freq, forced_mono, muted, state_lock, i2c_lock, chip, hist >>

\* _forced_mono = flag comes first, outside any lock
set_forced_mono(t, flag) ==
    /\ Begin(t, [NoOp EXCEPT !.name = "set_forced_mono", !.flag = flag], "r_acq", NoLoc)
    /\ forced_mono' = flag
    /\ UNCHANGED << pvars, writes, current_freq, muted, state_lock, i2c_lock, chip, hist >>

read_status(t) ==
    /\ Begin(t, [NoOp EXCEPT !.name = "read_status"], "r_acq", NoLoc)
    /\ UNCHANGED << pvars, writes, current_freq, forced_mono, muted, state_lock, i2c_lock, chip, hist >>

\* ------------------------------------------------------------ operations: the steps inside
\* StateAcquire with a state lock that excludes nobody
StateAcquire_no_exclusion(t) ==
    /\ pc[t] = "lock"
    /\ state_lock' = t
    /\ IF op[t].name = "step" /\ current_freq = None
       THEN /\ pc' = [pc EXCEPT ![t] = "r_acq"]
            /\ UNCHANGED loc
       ELSE LET f == IF op[t].name = "step"
                     THEN step_newf(current_freq, op[t].dir)
                     ELSE loc[t].f
            IN  /\ loc' = [loc EXCEPT ![t].f = f, ![t].frame = tune_frame(f)]
                /\ pc' = [pc EXCEPT ![t] = "w_acq"]
    /\ UNCHANGED << pvars, writes, current_freq, forced_mono, muted, i2c_lock, chip, op, ret, pre, callers, budget, hist >>

\* `with _state_lock:` at the top of tune_to and step
StateAcquire(t) ==
    /\ pc[t] = "lock"
    /\ state_lock = NoThread
    /\ state_lock' = t
    /\ IF op[t].name = "step" /\ current_freq = None
       THEN /\ pc' = [pc EXCEPT ![t] = "r_acq"]
            /\ UNCHANGED loc
       ELSE LET f == IF op[t].name = "step"
                     THEN step_newf(current_freq, op[t].dir)
                     ELSE loc[t].f
            IN  /\ loc' = [loc EXCEPT ![t].f = f, ![t].frame = tune_frame(f)]
                /\ pc' = [pc EXCEPT ![t] = "w_acq"]
    /\ UNCHANGED << pvars, writes, current_freq, forced_mono, muted, i2c_lock, chip, op, ret, pre, callers, budget, hist >>

\* mutant: a bus lock that excludes nobody on the read side
BusAcquireR_no_exclusion(t) ==
    /\ pc[t] = "r_acq"
    /\ i2c_lock' = t
    /\ pc' = [pc EXCEPT ![t] = "r_xfer"]
    /\ UNCHANGED << pvars, writes, current_freq, forced_mono, muted, state_lock, chip, op, loc, ret, pre, callers, budget, hist >>

\* raw_read5: `with _i2c_lock:`
BusAcquireR(t) ==
    /\ pc[t] = "r_acq"
    /\ i2c_lock = NoThread
    /\ i2c_lock' = t
    /\ pc' = [pc EXCEPT ![t] = "r_xfer"]
    /\ UNCHANGED << pvars, writes, current_freq, forced_mono, muted, state_lock, chip, op, loc, ret, pre, callers, budget, hist >>

\* mutant: raw_read5 returns with the bus lock still held
BusRead_keeps_bus(t, env) ==
    /\ pc[t] = "r_xfer"
    /\ i2c_lock' = i2c_lock
    /\ LET s == readback(chip, env)
       IN  IF op[t].name \in {"read_status", "step"}
           THEN /\ loc' = [loc EXCEPT ![t].s = s]
                /\ pc' = [pc EXCEPT ![t] = "rs_lock"]
           ELSE /\ loc' = [loc EXCEPT ![t].s = s, ![t].frame = apply_current_pll(s, op[t])]
                /\ pc' = [pc EXCEPT ![t] = "w_acq"]
    /\ UNCHANGED << pvars, writes, current_freq, forced_mono, muted, state_lock, chip, op, ret, pre, callers, budget, hist >>

\* raw_read5: open, address, read 5 bytes, close, release; then the caller goes on
BusRead(t, env) ==
    /\ pc[t] = "r_xfer"
    /\ i2c_lock' = NoThread
    /\ LET s == readback(chip, env)
       IN  IF op[t].name \in {"read_status", "step"}
           THEN /\ loc' = [loc EXCEPT ![t].s = s]
                /\ pc' = [pc EXCEPT ![t] = "rs_lock"]
           ELSE /\ loc' = [loc EXCEPT ![t].s = s, ![t].frame = apply_current_pll(s, op[t])]
                /\ pc' = [pc EXCEPT ![t] = "w_acq"]
    /\ UNCHANGED << pvars, writes, current_freq, forced_mono, muted, state_lock, chip, op, ret, pre, callers, budget, hist >>

\* a bus transaction raises OSError: `finally` closes the device, the
\* `with _i2c_lock` block releases, the exception goes up
Raise(t) ==
    /\ i2c_lock' = NoThread
    /\ pc' = [pc EXCEPT ![t] = "raise"]
    /\ UNCHANGED << pvars, writes, current_freq, forced_mono, muted, state_lock, chip, op, loc, ret, pre,
                    callers, budget, hist >>

BusReadFail(t) ==
    /\ pc[t] = "r_xfer"
    /\ Raise(t)

\* the exception leaves the operation: tune_to / step release _state_lock on
\* the way out, the caller gets the error
Unwind(t) ==
    /\ pc[t] = "raise"
    /\ state_lock' = IF state_lock = t THEN NoThread ELSE state_lock
    /\ Finish(t, NoRet)
    /\ UNCHANGED << pvars, writes, current_freq, forced_mono, muted, i2c_lock, chip, op, callers, budget >>

\* mutant: read_status stores the decoded frequency as the current one
StatusLock_stores_decoded(t) ==
    /\ pc[t] = "rs_lock"
    /\ state_lock = NoThread
    /\ LET st == decode_status(loc[t].s, muted)
       IN  /\ current_freq' = st.frequency
           /\ Finish(t, Ok(None, st))
    /\ UNCHANGED << pvars, writes, forced_mono, muted, state_lock, i2c_lock, chip, op, callers, budget >>

\* read_status: `with _state_lock: muted = _muted`, then the status dict;
\* inside step the dict seeds _current_freq
StatusLock(t) ==
    /\ pc[t] = "rs_lock"
    /\ state_lock = NoThread
    /\ LET st == decode_status(loc[t].s, muted)
       IN  IF op[t].name = "read_status"
           THEN /\ Finish(t, Ok(None, st))
                /\ UNCHANGED current_freq
           ELSE LET f == step_newf(st.frequency, op[t].dir)
                IN  /\ current_freq' = st.frequency
                    /\ loc' = [loc EXCEPT ![t].f = f, ![t].frame = tune_frame(f)]
                    /\ pc' = [pc EXCEPT ![t] = "w_acq"]
                    /\ UNCHANGED << ret, pre, hist >>
    /\ UNCHANGED << pvars, writes, forced_mono, muted, state_lock, i2c_lock, chip, op, callers, budget >>

\* raw_write5: `with _i2c_lock:`
BusAcquireW(t) ==
    /\ pc[t] = "w_acq"
    /\ i2c_lock = NoThread
    /\ i2c_lock' = t
    /\ pc' = [pc EXCEPT ![t] = "w_xfer"]
    /\ UNCHANGED << pvars, writes, current_freq, forced_mono, muted, state_lock, chip, op, loc, ret, pre, callers, budget, hist >>

\* raw_write5: open, address, write the 5 bytes, close, release
BusWrite(t) ==
    /\ pc[t] = "w_xfer"
    /\ chip' = loc[t].frame
    /\ writes' = writes + 1
    /\ i2c_lock' = NoThread
    /\ pc' = [pc EXCEPT ![t] = "settle"]
    /\ UNCHANGED << pvars, current_freq, forced_mono, muted, state_lock, op, loc, ret, pre, callers, budget, hist >>

BusWriteFail(t) ==
    /\ pc[t] = "w_xfer"
    /\ Raise(t)

\* time.sleep after the write; set_mono / set_stereo and a direct set_frequency
\* return from here
Settle(t) ==
    /\ pc[t] = "settle"
    /\ IF op[t].name \in {"set_forced_mono", "set_frequency"}
       THEN Finish(t, Ok(None, NoStatus))
       ELSE /\ pc' = [pc EXCEPT ![t] = IF op[t].name \in {"tune_to", "step"}
                                       THEN "commit" ELSE "m_lock"]
            /\ UNCHANGED << loc, ret, pre, hist >>
    /\ UNCHANGED << pvars, writes, current_freq, forced_mono, muted, state_lock, i2c_lock, chip, op, callers, budget >>

\* tune_to / step: _current_freq = f, leave the `with`, return f
Commit(t) ==
    /\ pc[t] = "commit"
    /\ current_freq' = loc[t].f
    /\ state_lock' = NoThread
    /\ Finish(t, Ok(loc[t].f, NoStatus))
    /\ UNCHANGED << pvars, writes, forced_mono, muted, i2c_lock, chip, op, callers, budget >>

\* mute / unmute: `with _state_lock: _muted = ...`
MuteCommit(t) ==
    /\ pc[t] = "m_lock"
    /\ state_lock = NoThread
    /\ muted' = (op[t].name = "mute")
    /\ Finish(t, Ok(None, NoStatus))
    /\ UNCHANGED << pvars, writes, current_freq, forced_mono, state_lock, i2c_lock, chip, op, callers, budget >>

Next ==
    \E t \in Threads :
        \/ \E f \in TuneInputs : tune_to(t, f)
        \/ \E d \in Directions : step(t, d)
        \/ mute(t)
        \/ unmute(t)
        \/ \E flag \in BOOLEAN : set_forced_mono(t, flag)
        \/ read_status(t)
        \/ StateAcquire(t)
        \/ BusAcquireR(t)
        \/ \E env \in ReadEnv : BusRead(t, env)
        \/ BusReadFail(t)
        \/ Unwind(t)
        \/ StatusLock(t)
        \/ BusAcquireW(t)
        \/ BusWrite(t)
        \/ BusWriteFail(t)
        \/ Settle(t)
        \/ Commit(t)
        \/ MuteCommit(t)

Spec == Init /\ [][Next]_vars

SpecSeq == InitSeq /\ [][Next]_vars

\* ------------------------------------------------------------ set_frequency called directly
\* read_status calls that follow the set_frequency call
MaxCodecReads == 1

\* arguments of a direct set_frequency call: the band in 0.1 MHz steps, and
\* frequencies on both sides of it
CodecInputs == Band \cup {10000, 87400, 108100, 200000}

\* thread 1 is about to run set_frequency(f) with the defaults mute=False,
\* stereo=True, de_emphasis_us=DE_EMPHASIS
InitCodec ==
    /\ current_freq = None
    /\ forced_mono = FALSE
    /\ muted = FALSE
    /\ state_lock = NoThread
    /\ i2c_lock = NoThread
    /\ chip \in PowerOnFrames
    /\ writes = 0
    /\ pc = [t \in Threads |-> IF t = 1 THEN "call" ELSE "idle"]
    /\ \E f \in CodecInputs :
          op = [t \in Threads |-> IF t = 1
                                  THEN [NoOp EXCEPT !.name = "set_frequency", !.f = f]
                                  ELSE NoOp]
    /\ loc = [t \in Threads |-> NoLoc]
    /\ ret = [t \in Threads |-> NoRet]
    /\ pre = [t \in Threads |-> NoPre]
    /\ hist = << >>
    /\ callers = {1}
    /\ budget = MaxCodecReads
    /\ PresetsAtImport

\* set_frequency's body up to raw_write5: the five bytes from the argument as given
set_frequency_call(t) ==
    /\ pc[t] = "call"
    /\ op[t].name = "set_frequency"
    /\ loc' = [loc EXCEPT ![t].f = op[t].f,
                          ![t].frame = set_frequency(op[t].f, FALSE, TRUE, DE_EMPHASIS)]
    /\ pc' = [pc EXCEPT ![t] = "w_acq"]
    /\ UNCHANGED << pvars, writes, current_freq, forced_mono, muted, state_lock, i2c_lock, chip,
                    op, ret, pre, callers, budget, hist >>

NextCodec ==
    \E t \in Threads :
        \/ set_frequency_call(t)
        \/ BusAcquireW(t)
        \/ BusWrite(t)
        \/ BusWriteFail(t)
        \/ Unwind(t)
        \/ Settle(t)
        \/ read_status(t)
        \/ BusAcquireR(t)
        \/ \E env \in ReadEnv : BusRead(t, env)
        \/ BusReadFail(t)
        \/ StatusLock(t)

SpecCodec == InitCodec /\ [][NextCodec]_vars

\* ------------------------------------------------------------ presets calls
\* presets calls made, by the two threads together
MaxPresetCalls == 3

\* the tuner's variables, untouched by the presets functions
tvars == << current_freq, forced_mono, muted, state_lock, i2c_lock, chip, writes,
            pc, op, loc, ret, pre, callers, budget, hist >>

\* the module has been imported (its reload_presets() saw some stations file or none),
\* the threads are about to make presets calls
InitPresets ==
    /\ InitCommon /\ callers = {} /\ budget = 0
    /\ \E file \in YamlFiles : presets = load_mapping(file)
    /\ presets_lock = NoThread
    /\ pst = [t \in Threads |-> NoPst]
    /\ installed = { presets }
    /\ pbudget = MaxPresetCalls

\* a presets call begins
PBegin(t, r) ==
    /\ pst[t].pc = "idle"
    /\ pbudget > 0
    /\ pbudget' = pbudget - 1
    /\ pst' = [pst EXCEPT ![t] = [r EXCEPT !.met = { pst[u].pc : u \in Threads \ {t} }]]
    /\ UNCHANGED << presets, presets_lock, installed, tvars >>

\* reload_presets: find the file, build the local mapping
reload_presets(t, file) ==
    PBegin(t, [NoPst EXCEPT !.pc = "p_acq", !.name = "reload_presets",
                            !.mapping = load_mapping(file)])

get_presets_list(t) ==
    PBegin(t, [NoPst EXCEPT !.pc = "p_acq", !.name = "get_presets_list"])

station_name_for(t, freq) ==
    PBegin(t, [NoPst EXCEPT !.pc = "p_acq", !.name = "station_name_for", !.freq = freq])

\* mutant: a reader that does not wait for the lock
PresetsAcquire_reader_barges(t) ==
    /\ pst[t].pc = "p_acq"
    /\ presets_lock = NoThread \/ pst[t].name # "reload_presets"
    /\ presets_lock' = IF presets_lock = NoThread THEN t ELSE presets_lock
    /\ pst' = [pst EXCEPT ![t].pc = IF pst[t].name = "reload_presets"
                                    THEN "p_clear" ELSE "p_read"]
    /\ UNCHANGED << presets, installed, pbudget, tvars >>

\* `with _PRESETS_LOCK:` in all three functions
PresetsAcquire(t) ==
    /\ pst[t].pc = "p_acq"
    /\ presets_lock = NoThread
    /\ presets_lock' = t
    /\ pst' = [pst EXCEPT ![t].pc = IF pst[t].name = "reload_presets"
                                    THEN "p_clear" ELSE "p_read"]
    /\ UNCHANGED << presets, installed, pbudget, tvars >>

\* reload_presets: _PRESETS.clear()
PresetsClear(t) ==
    /\ pst[t].pc = "p_clear"
    /\ presets' = {}
    /\ pst' = [pst EXCEPT ![t].pc = "p_update"]
    /\ UNCHANGED << presets_lock, installed, pbudget, tvars >>

\* reload_presets: _PRESETS.update(mapping), leave the `with`, return the mapping
PresetsUpdate(t) ==
    /\ pst[t].pc = "p_update"
    /\ presets' = update(presets, pst[t].mapping)
    /\ installed' = installed \cup { presets' }
    /\ presets_lock' = IF presets_lock = t THEN NoThread ELSE presets_lock
    /\ pst' = [pst EXCEPT ![t].pc = "idle", ![t].result = pst[t].mapping]
    /\ UNCHANGED << pbudget, tvars >>

\* get_presets_list / station_name_for: compute from _PRESETS, leave the `with`, return
PresetsRead(t) ==
    /\ pst[t].pc = "p_read"
    /\ pst' = [pst EXCEPT ![t].pc = "idle",
                          ![t].seen = presets,
                          ![t].result = IF pst[t].name = "get_presets_list"
                                        THEN sorted_items(presets)
                                        ELSE nearest_name(presets, pst[t].freq)]
    /\ presets_lock' = IF presets_lock = t THEN NoThread ELSE presets_lock
    /\ UNCHANGED << presets, installed, pbudget, tvars >>

NextPresets ==
    \E t \in Threads :
        \/ \E file \in YamlFiles : reload_presets(t, file)
        \/ get_presets_list(t)
        \/ \E freq \in LookupInputs : station_name_for(t, freq)
        \/ PresetsAcquire(t)
        \/ PresetsClear(t)
        \/ PresetsUpdate(t)
        \/ PresetsRead(t)

SpecPresets == InitPresets /\ [][NextPresets]_vars

\* ------------------------------------------------------------ claims
\* what the calls that have finished look like from the end of hist
Last(k) == hist[Len(hist) - k]
Done(t, name) == pc[t] = "idle" /\ op[t].name = name /\ ret[t].ok
Abs(x) == IF x < 0 THEN -x ELSE x
\* f to the nearest 0.1 MHz, then into the band (f not an exact tie)
Nearest(f) == ((f + 50) \div 100) * 100
InBand(f) == IF Nearest(f) < 87500 THEN 87500
             ELSE IF Nearest(f) > 108000 THEN 108000 ELSE Nearest(f)

\* C1: a step call never blocks forever: no thread inside step waits for the
\* state lock while it is itself the holder of that (non-reentrant) lock.
C1_StepNeverBlocks ==
    \A t \in Threads :
        ~(op[t].name = "step" /\ pc[t] = "rs_lock" /\ state_lock = t)

\* C2: once every call has completed, the PLL bits the chip holds are those of
\* the last committed frequency, freq_to_pll(current_freq).
C2_ChipHoldsCommittedPll ==
    ((\A t \in Threads : pc[t] = "idle") /\ current_freq # None)
        => pll_of(chip) = freq_to_pll(current_freq)

\* C3: when an operation fails with a bus error, current_freq, forced_mono and
\* muted have the values they had before the call.
C3_FailureKeepsSoftState ==
    \A t \in Threads :
        pc[t] = "raise" =>
            /\ current_freq = pre[t].cur
            /\ forced_mono = pre[t].mono
            /\ muted = pre[t].muted

\* every call so far has succeeded
AllOk == \A i \in 1..Len(hist) : hist[i].ok

\* C4: current_freq is unset or a multiple of 0.1 MHz inside [87.5, 108.0] MHz.
C4_FreqInBand ==
    \/ current_freq = None
    \/ /\ current_freq >= 87500
       /\ current_freq <= 108000
       /\ current_freq % 100 = 0

\* a step down that saturated at the lower band edge
C4_Witness ==
    \E t \in Threads :
        /\ Done(t, "step")
        /\ op[t].dir = "down"
        /\ current_freq = 87500
        /\ Len(hist) >= 2 /\ Last(1).val = 87500

\* C5: once set_forced_mono(flag) has written, the chip holds the PLL bits and
\* the mute bit it held before the call, the soft muted flag is unchanged, and
\* the stereo-enable bit is cleared when flag is true and set otherwise.
C5_MonoKeepsFrequencyAndMute ==
    \A t \in Threads :
        (op[t].name = "set_forced_mono" /\ pc[t] = "settle" /\ AllOk) =>
            /\ pll_of(chip) = pll_of(pre[t].chip)
            /\ Bit7(chip[1]) = Bit7(pre[t].chip[1])
            /\ muted = pre[t].muted
            /\ Bit7(chip[3]) = ~op[t].flag

\* C6: the frame mute() / unmute() writes has the PLL bits of the frame read
\* and a stereo-enable bit equal to NOT forced_mono (no call having failed).
C6_MuteKeepsStereoPolicy ==
    \A t \in Threads :
        (op[t].name \in {"mute", "unmute"} /\ pc[t] = "settle" /\ AllOk) =>
            /\ pll_of(chip) = pll_of(loc[t].s)
            /\ Bit7(chip[1]) = (op[t].name = "mute")
            /\ Bit7(chip[3]) = ~forced_mono

\* what read_status reports for the frame tune_to writes for frequency f
ReportedAfterTune(f) ==
    decode_status(readback(set_frequency(f, FALSE, TRUE, DE_EMPHASIS),
                           [rf |-> FALSE, st |-> FALSE, lev |-> 0]), FALSE).frequency

\* the frames of tune_to(f), mute(), unmute() when the chip reads back the
\* PLL bits last written: the frequency read_status decodes after each
MuteUnmuteChain(f, e1, e2, e3) ==
    LET w  == set_frequency(f, FALSE, TRUE, DE_EMPHASIS)
        m  == apply_current_pll(readback(w, e1), [NoOp EXCEPT !.name = "mute"])
        u  == apply_current_pll(readback(m, e2), [NoOp EXCEPT !.name = "unmute"])
    IN  << decode_status(readback(w, e3), FALSE).frequency,
           decode_status(readback(u, e3), FALSE).frequency,
           Bit7(u[1]) >>

\* the last four calls were tune_to, mute, unmute, read_status, all successful
TuneMuteUnmuteRead ==
    /\ Len(hist) >= 4
    /\ Last(3).name = "tune_to" /\ Last(3).ok
    /\ Last(2).name = "mute" /\ Last(2).ok
    /\ Last(1).name = "unmute" /\ Last(1).ok
    /\ Last(0).name = "read_status" /\ Last(0).ok

\* C7: sequentially, after tune_to(f), mute(), unmute(), read_status reports
\* the frequency it reports right after tune_to(f), within 0.05 MHz of f, and
\* muted = false; the frames do so for every f of the band.
C7_MuteUnmuteKeepsFrequency ==
    /\ TuneMuteUnmuteRead =>
          /\ Last(0).val = ReportedAfterTune(Last(3).val)
          /\ Abs(Last(0).val - Last(3).val) <= 50
          /\ \A t \in callers : ~ret[t].st.muted
          /\ ~muted
    /\ hist = << >> =>
          \A f \in Band : \A e1 \in ReadEnv : \A e2 \in ReadEnv : \A e3 \in ReadEnv :
              LET c == MuteUnmuteChain(f, e1, e2, e3)
              IN  c[1] = c[2] /\ Abs(c[2] - f) <= 50 /\ ~c[3]

C7_Witness == TuneMuteUnmuteRead /\ Last(3).val = 96600 /\ Last(0).val # 96600

\* C8: tune_to(f) returns f rounded to 0.1 MHz and clamped into [87.5, 108.0],
\* has written the frame of exactly that frequency (mute bit clear) and has
\* set current_freq to it; 200.0 yields 108.0 and 10.0 yields 87.5.
C8_TuneClamps ==
    \A t \in Threads :
        Done(t, "tune_to") =>
            /\ ret[t].freq = InBand(op[t].f)
            /\ current_freq = ret[t].freq
            /\ pll_of(chip) = freq_to_pll(InBand(op[t].f))
            /\ ~Bit7(chip[1])
            /\ op[t].f = 200000 => ret[t].freq = 108000
            /\ op[t].f = 10000 => ret[t].freq = 87500

C8_Witness ==
    \E t \in Threads : Done(t, "tune_to") /\ op[t].f = 200000 /\ current_freq = 108000

\* a step call returns
StepReturns(t) == pc[t] = "commit" /\ pc'[t] = "idle" /\ op[t].name = "step"

\* C9: a step(up) returns min(current + 0.1, 108.0), never less than the
\* frequency before it and 108.0 once that is reached; a step(down) returns
\* max(current - 0.1, 87.5): saturation, no wrap.
C9_StepSaturates ==
    [][ \A t \in Threads :
            StepReturns(t) =>
                /\ ret'[t].freq = current_freq'
                /\ op[t].dir = "up" =>
                      /\ current_freq' = Min(current_freq + 100, 108000)
                      /\ current_freq' >= current_freq
                /\ op[t].dir = "down" =>
                      /\ current_freq' = Max(current_freq - 100, 87500)
                      /\ current_freq' <= current_freq ]_vars

\* step(up) reached 108.0 from 107.9 and the next step(up) stayed there
C9_Witness ==
    /\ Len(hist) = 4
    /\ \A i \in 2..4 : hist[i].name = "step" /\ hist[i].ok
    /\ hist[2].val = 107900 /\ hist[3].val = 108000 /\ hist[4].val = 108000
    /\ current_freq = 108000

\* the successful tune_to at hist[j] is followed only by successful
\* read_status calls that decoded another frequency, up to the last call
ReadsSinceTune(j) ==
    /\ hist[j].name = "tune_to" /\ hist[j].ok
    /\ \A k \in (j + 1)..(Len(hist) - 1) :
          hist[k].name = "read_status" /\ hist[k].ok /\ hist[k].val # hist[j].val

\* C10: read_status changes none of current_freq, forced_mono, muted; a step
\* after tune_to(f) and any number of read_status calls that decoded another
\* frequency returns clamp(f + 0.1) (up) or clamp(f - 0.1) (down).
C10_StepFromCommanded ==
    /\ [](\A t \in Threads : \A j \in 1..(Len(hist) - 1) :
            (Done(t, "step") /\ Last(0).name = "step" /\ ReadsSinceTune(j)) =>
                ret[t].freq = InBand(hist[j].val
                                     + (IF op[t].dir = "up" THEN 100 ELSE -100)))
    /\ [][ \A t \in Threads :
              (op[t].name = "read_status" /\ pc[t] # "idle") =>
                  UNCHANGED << current_freq, forced_mono, muted >> ]_vars

\* tune_to(96.64), two read_status calls that decoded 96.596, then a step
C10_Witness ==
    /\ Len(hist) = 4
    /\ ReadsSinceTune(1) /\ hist[1].val = 96600
    /\ hist[2].val = 96596
    /\ Last(0).name = "step" /\ Last(0).ok /\ Last(0).val = 96700

\* a mute / unmute call that raised
MuteRaised(t) == op[t].name \in {"mute", "unmute"} /\ pc[t] = "raise"

\* C11: when mute() or unmute() fails with a bus error, at its read or at its
\* write, the caller gets the error and muted keeps the value it had before
\* the call.
C11_MuteFailureKeepsFlag ==
    /\ [](\A t \in Threads : MuteRaised(t) => muted = pre[t].muted)
    /\ [][ \A t \in Threads :
              (MuteRaised(t) /\ pc'[t] = "idle") =>
                  /\ muted' = muted
                  /\ ~ret'[t].ok
                  /\ hist' = Append(hist, [name |-> op[t].name, ok |-> FALSE, val |-> None]) ]_vars

\* unmute() failed at its write while the tuner was muted
C11_Witness ==
    \E t \in Threads :
        /\ MuteRaised(t) /\ op[t].name = "unmute"
        /\ loc[t].frame # << >>
        /\ muted /\ pre[t].muted

\* only tune_to has been called so far, by any thread
OnlyTunes ==
    /\ \A t \in Threads : op[t].name \in {"none", "tune_to"}
    /\ \A i \in 1..Len(hist) : hist[i].name = "tune_to"

\* the frame tune_to builds for the requested frequency f, byte by byte
TuneFrameOf(f, b) ==
    /\ Len(b) = 5
    /\ pll_of(b) = freq_to_pll(InBand(f))
    /\ ~Bit7(b[1]) /\ b[1] < 64
    /\ b[4] = 16 /\ b[5] = 0

\* C12: when only tune_to calls run, concurrently, every frame on the chip is the whole
\* frame of one call (the PLL word of that call's clamped frequency, mute bit clear,
\* byte 3 = 0x10, byte 4 = 0x00): the call that has just written it sees its own frame
\* there until it returns; and once all N calls have returned successfully there have
\* been exactly N bus writes and current_frequency is the frequency of the last frame
C12_TunesSerialise ==
    OnlyTunes =>
        /\ \A t \in Threads :
              pc[t] \in {"settle", "commit"} =>
                  /\ TuneFrameOf(op[t].f, chip)
                  /\ state_lock = t
        /\ writes > 0 => \E f \in TuneInputs : TuneFrameOf(f, chip)
        /\ ((\A t \in Threads : pc[t] = "idle") /\ AllOk) =>
              /\ writes = Len(hist)
              /\ Len(hist) > 0 =>
                    /\ current_freq = Last(0).val
                    /\ pll_of(chip) = freq_to_pll(current_freq)

\* two threads have each completed a tune_to, to different frequencies, both written
C12_Witness ==
    /\ OnlyTunes /\ AllOk
    /\ \A t \in Threads : Done(t, "tune_to")
    /\ op[1].f # op[2].f
    /\ Len(hist) = 2 /\ writes = 2
    /\ current_freq = InBand(op[2].f) /\ Last(0).val = current_freq

\* a direct set_frequency call whose argument lies outside [87.5, 108.0] MHz
OutOfBandCall(t) ==
    op[t].name = "set_frequency" /\ (op[t].f < FREQ_MIN \/ op[t].f > FREQ_MAX)

\* C13: set_frequency with an argument outside [87.5, 108.0] MHz issues no bus write
\* and does not return normally.
C13_SetFrequencyRejectsOutOfBand ==
    \A t \in Threads :
        OutOfBandCall(t) =>
            /\ writes = 0
            /\ chip \in PowerOnFrames
            /\ ~(pc[t] = "idle" /\ ret[t].ok)

\* set_frequency(f) has returned and the read_status after it has returned
SetThenRead ==
    /\ Len(hist) >= 2
    /\ hist[1].name = "set_frequency" /\ hist[1].ok
    /\ hist[2].name = "read_status" /\ hist[2].ok

\* C14: for every f of the band in 0.1 MHz steps the PLL word of f fits in 14 bits, the
\* frame set_frequency(f) writes carries that word, and read_status decodes the frame
\* to a frequency within 0.05 MHz of f.
C14_CodecRoundTrip ==
    /\ \A f \in Band : freq_to_pll(f) >= 0 /\ freq_to_pll(f) < 16384
    /\ \A t \in Threads :
          (op[t].name = "set_frequency" /\ op[t].f \in Band /\ pc[t] = "settle") =>
              /\ pll_of(chip) = freq_to_pll(op[t].f)
              /\ chip[1] < 64 /\ Bit7(chip[3]) /\ chip[4] = 16 /\ chip[5] = 0
    /\ (SetThenRead /\ hist[1].val \in Band) =>
          Abs(hist[2].val - hist[1].val) <= 50

\* the round trip has been made at both band edges and in between
C14_Witness ==
    /\ SetThenRead
    /\ hist[1].val \in {FREQ_MIN, FREQ_MAX, 96600}
    /\ hist[2].val # hist[1].val
    /\ Abs(hist[2].val - hist[1].val) <= 50

\* thread t has returned from a call that reads the presets table
ReaderDone(t) ==
    pst[t].pc = "idle" /\ pst[t].name \in {"get_presets_list", "station_name_for"}

\* C15: a get_presets_list or station_name_for call, whatever reload_presets calls run
\* at the same time, computes its result from a table that a reload installed
\* completely (the one before or the one after), never from the cleared or a half
\* filled one; and whenever nobody is inside reload_presets' locked block the table
\* is such a complete table.
C15_ReloadAtomicToReaders ==
    /\ \A t \in Threads :
          ReaderDone(t) =>
              /\ pst[t].seen \in installed
              /\ pst[t].name = "get_presets_list" =>
                    pst[t].result = sorted_items(pst[t].seen)
              /\ pst[t].name = "station_name_for" =>
                    pst[t].result = nearest_name(pst[t].seen, pst[t].freq)
    /\ \A t \in Threads :
          pst[t].pc = "p_read" => presets \in installed /\ presets_lock = t
    /\ (\A t \in Threads : pst[t].pc \notin {"p_clear", "p_update"}) =>
          presets \in installed

\* a lookup that began while another thread was between clear() and update() of its
\* reload has returned a name found in the table that reload installed
C15_Witness ==
    \E t \in Threads :
        /\ ReaderDone(t) /\ pst[t].name = "station_name_for"
        /\ "p_update" \in pst[t].met
        /\ pst[t].seen # {} /\ pst[t].seen # FallbackPresets
        /\ Cardinality(installed) >= 2
        /\ pst[t].result \notin {"Unknown", "Preset 1", "Preset 2"}

\* thread t is inside raw_read5's or raw_write5's open + address + transfer + close
InTransaction(t) == pc[t] \in {"r_xfer", "w_xfer"}

\* thread t is waiting for, or about to take, the state lock
RequestsStateLock(t) == pc[t] \in {"lock", "rs_lock", "m_lock"}

\* C16: a thread that is inside a bus transaction of a tuner operation holds the
\* state lock.
C16_BusUnderStateLock ==
    \A t \in Threads : InTransaction(t) => state_lock = t

\* C17: at most one thread is inside a bus transaction, that thread holds the bus
\* lock, and nobody holds the bus lock outside a transaction: it is free again once
\* the transaction has ended, by a return or by an exception.
C17_BusExclusive ==
    /\ \A t, u \in Threads : (InTransaction(t) /\ InTransaction(u)) => t = u
    /\ \A t \in Threads : InTransaction(t) <=> i2c_lock = t
    /\ i2c_lock \in Threads \cup {NoThread}

\* one thread is inside a transaction, holding the bus lock it could take because
\* the other thread's transaction, which raised, has released it
C17_Witness ==
    \E t, u \in Threads :
        /\ t # u
        /\ InTransaction(t) /\ i2c_lock = t
        /\ pc[u] = "raise"

\* C18: while a thread is in the settle delay after its bus write, no other thread
\* is inside a bus transaction.
C18_SettleWindowQuiet ==
    \A t, u \in Threads :
        (t # u /\ pc[t] = "settle") => ~InTransaction(u)

\* C19: a thread that requests the state lock does not hold the bus lock.
C19_StateLockBeforeBusLock ==
    \A t \in Threads : RequestsStateLock(t) => i2c_lock # t

\* a thread holds the state lock and, taken after it, the bus lock, while the other
\* thread requests the state lock
C19_Witness ==
    \E t, u \in Threads :
        /\ t # u
        /\ InTransaction(t) /\ state_lock = t /\ i2c_lock = t
        /\ RequestsStateLock(u)

\* C20: after tune_to, step, mute and unmute calls that have all completed, the soft
\* muted flag (which read_status reports) equals the mute bit of the last frame
\* written to the chip.
C20_MutedMirrorsChip ==
    ( /\ \A t \in Threads : pc[t] = "idle"
      /\ AllOk /\ writes > 0
      /\ \A i \in 1..Len(hist) : hist[i].name \in {"tune_to", "step", "mute", "unmute"} )
    => muted = Bit7(chip[1])

====
